---- MODULE Spec2Model ----
(***************************************************************************)
(* Model of the Growatt inverter monitor (src/src/canadian_reads_mqtt2.py) *)
(*                                                                         *)
(* The program is one thread: main_loop polls an Inverter over Modbus,     *)
(* uploads to PVOutput on 5-minute boundaries through PVOutputAPI and      *)
(* publishes the reading on MQTT.  The model follows the control flow of   *)
(* main_loop, Inverter.read_inputs, Inverter.version,                      *)
(* PVOutputAPI.send_status and PVOutputAPI.__call statement by statement.  *)
(*                                                                         *)
(* Time is the local wall clock in seconds since midnight of day 0.        *)
(* Python floats are exact rationals [n, d] (value n/d); strings decoded    *)
(* from registers are sequences of character codes.                        *)
(***************************************************************************)
EXTENDS Integers, Sequences, FiniteSets, TLC

VARIABLES
    testMode,        \* TEST_MODE (--test), fixed at start
    pc,              \* position of the single thread of control
    ret,             \* where PVOutputAPI.send_status returns to
    clock,           \* local wall clock, seconds since day 0 00:00:00
    drift,           \* seconds of clock spent outside the sleeps so far
    iter,            \* number of loop iterations / send_status calls started
    conn,            \* serial handle of the Modbus client: "Closed" | "Open"
    inv,             \* the Inverter object's fields
    wh_today_last,   \* PVOutputAPI._wh_today_last
    payload,         \* payload built by send_status (function key -> value)
    attempt,         \* 1-based index of the current pass of range(3) in __call
    reset,           \* __call local: round(X-Rate-Limit-Reset - time())
    last_pvo_minute, \* main_loop local
    now,             \* main_loop local: clock value read at line 472
    hour,            \* main_loop local (line 523)
    minute,          \* main_loop local (line 524)
    mqtt,            \* message-bus session: the client, its network loop and
                     \* whether the offline availability was published
    exc,             \* exception that escaped main_loop, "none" if none
    call,            \* record of what the current/last __call did
    it,              \* record of what the current loop iteration did
    lastCall,        \* last Inverter call and its result
    sent,            \* record of what has been POSTed / invoked so far
    args,            \* arguments of the current/last send_status call
    exit_code,       \* exit status of the process, None while it runs
    codec            \* registers given to a decoding function and its result

vars == <<testMode, pc, ret, clock, drift, iter, conn, inv, wh_today_last, payload,
          attempt, reset, last_pvo_minute, now, hour, minute, mqtt, exc, call,
          it, lastCall, sent, args, exit_code, codec>>

(***************************************************************************)
(* Bounds of the model                                                     *)
(***************************************************************************)
\* iterations of the poll loop explored
MaxIter == 3
\* send_status calls explored when the uploader is driven on its own
MaxCalls == 2
\* seconds that the steps between the sleeps may take in all (the time a
\* Modbus read or any other statement takes before the next clock read)
MaxDrift == 2

(***************************************************************************)
(* Program constants                                                       *)
(***************************************************************************)
shStart == 5
shStop == 21
POLL_INTERVAL == 10
MaxAttempts == 3
RetrySleep == 5
MinRegisters == 45
NoStatus == -1
NoMinute == -1
EpochDate == -1

\* an optional argument: None or a supplied value
None == [some |-> FALSE]
Some(x) == [some |-> TRUE, v |-> x]

STATUSCODES == (0 :> "Waiting") @@ (1 :> "Normal") @@ (3 :> "Fault")

(***************************************************************************)
(* Clock and number helpers                                                *)
(***************************************************************************)
\* datetime.hour / datetime.minute of a clock value
HourOf(c) == (c \div 3600) % 24
MinuteOf(c) == (c \div 60) % 60
\* the calendar minute (date, hour, minute) of a clock value
CalendarMinute(c) == c \div 60
\* date.strftime('%Y%m%d') and date.strftime('%H:%M')
Strftime_d(c) == c \div 86400
Strftime_t(c) == <<HourOf(c), MinuteOf(c)>>

\* a Python float as an exact rational
Rat(n, d) == [n |-> n, d |-> d]
Float(i) == Rat(i, 1)
RatEq(a, b) == a.n * b.d = b.n * a.d
RatPos(a) == a.n > 0
\* float(a) / float(b), b # 0
RatDiv(a, b) == IF b.n > 0 THEN Rat(a.n * b.d, a.d * b.n)
                ELSE Rat(-(a.n * b.d), a.d * (-b.n))
RatMul(a, b) == Rat(a.n * b.n, a.d * b.d)
\* int(x): truncation toward zero
PyInt(a) == IF a.n >= 0 THEN a.n \div a.d ELSE -((-a.n) \div a.d)

\* round(h/2) for a value given in half units, ties to even as Python 3 does
PyRoundHalves(h) ==
    LET f == h \div 2       \* floor of h/2
    IN  IF h % 2 = 0 THEN f
        ELSE IF f % 2 = 0 THEN f ELSE f + 1

\* a << k and a >> k on non-negative integers
ShiftLeft(a, k) == a * (2 ^ k)
ShiftRight(a, k) == a \div (2 ^ k)

\* a & b on non-negative integers
RECURSIVE BitAnd(_, _)
BitAnd(a, b) ==
    IF a = 0 \/ b = 0 THEN 0
    ELSE (IF a % 2 = 1 /\ b % 2 = 1 THEN 1 ELSE 0)
         + 2 * BitAnd(a \div 2, b \div 2)

\* chr(n) and ord(c): a character is kept as its code point
Chr(n) == [ch |-> n]
Ord(c) == c.ch

\* str(n) of a non-negative integer: its decimal digits
Digit(d) == <<"0", "1", "2", "3", "4", "5", "6", "7", "8", "9">>[d + 1]
RECURSIVE Str(_)
Str(n) == IF n < 10 THEN <<Digit(n)>> ELSE Str(n \div 10) \o <<Digit(n % 10)>>

(***************************************************************************)
(* Register decoding (RegisterCodec)                                       *)
(***************************************************************************)
\* a register block: function 0..n-1 -> 0..65535, zero where not given
Image(n, ov) == [i \in 0..(n - 1) |-> IF i \in DOMAIN ov THEN ov[i] ELSE 0]
NumRegs(regs) == Cardinality(DOMAIN regs)

\* Inverter._rssf: float(registers[index]) / scale
_rssf(registers, index, scale) == RatDiv(Float(registers[index]), scale)

\* a combination of two registers that adds the words without a shift
RsdfRawNoShift(registers, index) == registers[index] + registers[index + 1]

\* the integer _rsdf combines: (registers[index] << 16) + registers[index+1]
RsdfRaw(registers, index) ==
    ShiftLeft(registers[index], 16) + registers[index + 1]

\* Inverter._rsdf: float((registers[index] << 16) + registers[index+1]) / scale
_rsdf(registers, index, scale) ==
    RatDiv(Float(RsdfRaw(registers, index)), scale)

\* a decoder that puts the low byte first
DecodeRegisterSwapped(r) == <<Chr(BitAnd(r, 255)), Chr(ShiftRight(r, 8))>>

\* the two characters of one register: chr(r >> 8) + chr(r & 0xFF)
DecodeRegister(r) == <<Chr(ShiftRight(r, 8)), Chr(BitAnd(r, 255))>>

\* Inverter._decode_registers: the characters of registers[start..start+count-1];
\* range(start, start + count) is empty for count <= 0
RECURSIVE _decode_registers(_, _, _)
_decode_registers(registers, start, count) ==
    IF count <= 0 THEN <<>>
    ELSE DecodeRegister(registers[start])
         \o _decode_registers(registers, start + 1, count - 1)

\* a model number whose first field is not masked
ModelNoUnmasked(mo) ==
    <<"T">> \o Str(ShiftRight(mo, 20))
    \o <<" ", "Q">> \o Str(ShiftRight(BitAnd(mo, 983040), 16))
    \o <<" ", "P">> \o Str(ShiftRight(BitAnd(mo, 61440), 12))
    \o <<" ", "U">> \o Str(ShiftRight(BitAnd(mo, 3840), 8))
    \o <<" ", "M">> \o Str(ShiftRight(BitAnd(mo, 240), 4))
    \o <<" ", "S">> \o Str(BitAnd(mo, 15))

\* the model_no string of version() (lines 258-262), one character per
\* element: 'T' + str((mo & 0xF00000) >> 20) + ' Q' + ... + ' S' + str(mo & 0xF)
ModelNo(mo) ==
    <<"T">> \o Str(ShiftRight(BitAnd(mo, 15728640), 20))
    \o <<" ", "Q">> \o Str(ShiftRight(BitAnd(mo, 983040), 16))
    \o <<" ", "P">> \o Str(ShiftRight(BitAnd(mo, 61440), 12))
    \o <<" ", "U">> \o Str(ShiftRight(BitAnd(mo, 3840), 8))
    \o <<" ", "M">> \o Str(ShiftRight(BitAnd(mo, 240), 4))
    \o <<" ", "S">> \o Str(BitAnd(mo, 15))

Scale10 == Rat(10, 1)
Scale100 == Rat(100, 1)
ScaleWh == Rat(1, 100)
ScaleHours == Rat(7200, 1)

(***************************************************************************)
(* Inverter (InverterReader)                                               *)
(***************************************************************************)
\* Inverter.__init__
InverterInit ==
    [date |-> EpochDate, status |-> NoStatus,
     pv_power_total |-> Float(0), pv_power1 |-> Float(0),
     pv_volts1 |-> Float(0), pv_amps1 |-> Float(0),
     pv_power2 |-> Float(0), pv_volts2 |-> Float(0), pv_amps2 |-> Float(0),
     ac_volts |-> Float(0), ac_power |-> Float(0), ac_amps |-> Float(0),
     ac_frequency |-> Float(0), wh_today |-> Float(0), wh_total |-> Float(0),
     temp |-> Float(0), ipm_temp |-> Float(0),
     firmware |-> <<>>, control_fw |-> <<>>, model_no |-> <<>>,
     serial_no |-> <<>>, dtc |-> -1, status_str |-> "",
     operation_hours |-> Float(0)]

\* a Modbus reply: an error object (no registers) or a register block
ErrorReply == [error |-> TRUE, registers |-> <<>>]
Reply(regs) == [error |-> FALSE, registers |-> regs]

\* Inverter.connect (lines 166-168) returns what the serial client's
\* connect() returns: True when the connection is open afterwards, False
\* when it is not. The client is library code; whether the port can be
\* opened (portOk) is the environment's choice at every call, whatever
\* state the handle c was in
Connect(c, portOk) == IF portOk THEN "Open" ELSE "Closed"

\* the assignments of read_inputs lines 190-209
DecodeInputs(i, r) ==
    [i EXCEPT
        !.pv_power_total = _rsdf(r, 1, Scale10),
        !.pv_volts1 = _rssf(r, 3, Scale10),
        !.pv_amps1 = _rssf(r, 4, Scale10),
        !.pv_power1 = _rsdf(r, 5, Scale10),
        !.pv_volts2 = _rssf(r, 7, Scale10),
        !.pv_amps2 = _rssf(r, 8, Scale10),
        !.pv_power2 = _rsdf(r, 9, Scale10),
        !.ac_power = _rsdf(r, 11, Scale10),
        !.ac_volts = _rssf(r, 14, Scale10),
        !.ac_amps = _rssf(r, 15, Scale10),
        !.ac_frequency = _rssf(r, 13, Scale100),
        !.wh_today = _rsdf(r, 26, ScaleWh),
        !.wh_total = _rsdf(r, 28, ScaleWh),
        !.operation_hours = _rsdf(r, 30, ScaleHours),
        !.temp = _rssf(r, 32, Scale10),
        !.ipm_temp = _rssf(r, 41, Scale10)]

\* an error path that forgets self._inv.close()
ReadInputsFailureNoClose(i) ==
    [inv |-> [i EXCEPT !.status = NoStatus], conn |-> "Open",
     ok |-> FALSE, exc |-> "none"]

\* an error path that also clears the reading of the last good poll
ReadInputsFailureResets(i) ==
    [inv |-> [InverterInit EXCEPT !.firmware = i.firmware,
                                  !.control_fw = i.control_fw,
                                  !.model_no = i.model_no,
                                  !.serial_no = i.serial_no,
                                  !.dtc = i.dtc],
     conn |-> "Closed", ok |-> FALSE, exc |-> "none"]

\* what read_inputs does on a read error: lines 213-217
ReadInputsFailure(i) ==
    [inv |-> [i EXCEPT !.status = NoStatus], conn |-> "Closed",
     ok |-> FALSE, exc |-> "none"]

\* Inverter.read_inputs with the handle in state c, the port openable or not,
\* the reply rr of read_input_registers and localnow() = t.
\* Result: the object's fields, the handle, the return value and the
\* exception raised ("none" if it returned).
read_inputs(i, c, portOk, rr, t) ==
    IF Connect(c, portOk) # "Open"
    THEN [inv |-> i, conn |-> "Closed", ok |-> FALSE, exc |-> "none"]
    ELSE IF ~rr.error /\ NumRegs(rr.registers) >= MinRegisters
    THEN LET st == rr.registers[0]
             i1 == [i EXCEPT !.date = t, !.status = st]
         IN  IF st # NoStatus /\ st \notin DOMAIN STATUSCODES
             THEN \* STATUSCODES[self.status] raises KeyError at line 188
                  [inv |-> i1, conn |-> "Open", ok |-> FALSE, exc |-> "KeyError"]
             ELSE [inv |-> DecodeInputs(
                              [i1 EXCEPT !.status_str =
                                  IF st # NoStatus THEN STATUSCODES[st]
                                  ELSE i.status_str],
                              rr.registers),
                   conn |-> "Open", ok |-> TRUE, exc |-> "none"]
    ELSE ReadInputsFailure(i)

\* what version does on a read error: lines 268-276
VersionFailure(i) ==
    [inv |-> [i EXCEPT !.firmware = <<>>, !.control_fw = <<>>,
                       !.model_no = <<>>, !.serial_no = <<>>, !.dtc = -1],
     conn |-> "Closed", ok |-> FALSE, exc |-> "none"]

\* Inverter.version with the reply rr of read_holding_registers
version(i, c, portOk, rr) ==
    IF Connect(c, portOk) # "Open"
    THEN [inv |-> i, conn |-> "Closed", ok |-> FALSE, exc |-> "none"]
    ELSE IF ~rr.error /\ NumRegs(rr.registers) >= MinRegisters
    THEN LET r == rr.registers
         IN  [inv |-> [i EXCEPT
                        !.firmware = _decode_registers(r, 9, 3),
                        !.control_fw = _decode_registers(r, 12, 3),
                        !.serial_no = _decode_registers(r, 23, 5),
                        !.model_no = ModelNo(ShiftLeft(r[28], 16) + r[29]),
                        !.dtc = r[43]],
              conn |-> "Open", ok |-> TRUE, exc |-> "none"]
    ELSE VersionFailure(i)

\* a guard that lets a reply of 44 registers through
StampsReadingShort(c, portOk, rr) ==
    /\ Connect(c, portOk) = "Open"
    /\ ~rr.error
    /\ NumRegs(rr.registers) >= MinRegisters - 1

\* read_inputs calls localnow() (line 184) only for a full reply
StampsReading(c, portOk, rr) ==
    /\ Connect(c, portOk) = "Open"
    /\ ~rr.error
    /\ NumRegs(rr.registers) >= MinRegisters

\* the register indices one decoding call reads: registers[index] (line
\* 230), registers[index] and registers[index + 1] (line 235),
\* registers[i] for i in range(start, start + count) (lines 223-224)
RssfIndices(index) == {index}
RsdfIndices(index) == {index, index + 1}
DecodeIndices(start, count) == start..(start + count - 1)

\* the offsets read_inputs passes to _rsdf (lines 190-207) and to _rssf
\* (lines 192-209)
InputDoubles == {1, 5, 9, 11, 26, 28, 30}
InputSingles == {3, 4, 7, 8, 13, 14, 15, 32, 41}

\* the indices of rr.registers that read_inputs reads: none unless the reply
\* passed the test of line 183, the status alone (line 186) when the
\* status lookup raises
ReadInputsAccesses(c, portOk, rr) ==
    IF ~StampsReading(c, portOk, rr) THEN {}
    ELSE IF rr.registers[0] # NoStatus
            /\ rr.registers[0] \notin DOMAIN STATUSCODES
    THEN {0}
    ELSE {0} \cup UNION {RsdfIndices(o) : o \in InputDoubles}
             \cup UNION {RssfIndices(o) : o \in InputSingles}

\* the indices of rr.registers that version reads (lines 248-265): none
\* unless the reply passed the test of line 246
VersionAccesses(c, portOk, rr) ==
    IF ~StampsReading(c, portOk, rr) THEN {}
    ELSE DecodeIndices(9, 3) \cup DecodeIndices(12, 3)
         \cup DecodeIndices(23, 5) \cup {28, 29, 43}

(***************************************************************************)
(* Replies the serial link can give                                        *)
(***************************************************************************)
\* input-register blocks: status in register 0, energy today in 26/27,
\* PV power in 1/2, AC power in 11/12
InputBlock(n, st, wh, pv) ==
    Image(n, (0 :> st) @@ (1 :> 0) @@ (2 :> pv) @@ (3 :> 2301) @@ (11 :> 0)
             @@ (12 :> 400) @@ (13 :> 5001) @@ (14 :> 2405) @@ (26 :> 0)
             @@ (27 :> wh) @@ (29 :> 1234) @@ (31 :> 7201) @@ (32 :> 355))

InputReplies ==
    { ErrorReply,
      Reply(InputBlock(44, 1, 1, 500)),
      Reply(InputBlock(45, 1, 1, 500)),
      Reply(InputBlock(45, 2, 1, 500)) }

\* holding-register block: "G.1.8 " at 9..11, serial at 23..27, model 28/29
HoldingBlock(n) ==
    Image(n, (9 :> 18222) @@ (10 :> 12590) @@ (11 :> 14368) @@ (12 :> 16706)
             @@ (23 :> 16689) @@ (24 :> 16946) @@ (28 :> 18) @@ (29 :> 13398)
             @@ (43 :> 134))

HoldingReplies ==
    { ErrorReply, Reply(HoldingBlock(44)), Reply(HoldingBlock(45)) }

(***************************************************************************)
(* PVOutputAPI (RateLimitedUploader)                                       *)
(***************************************************************************)
\* the arguments of send_status; every one but date is optional
SendArgs(date, energy, power, vdc, vac, temp_inv, life, power_vdc, comments, cumul) ==
    [date |-> date, energy_gen |-> energy, power_gen |-> power,
     energy_imp |-> None, power_imp |-> None, temp |-> None, vdc |-> vdc,
     cumulative |-> cumul, vac |-> vac, temp_inv |-> temp_inv,
     energy_life |-> life, comments |-> comments, power_vdc |-> power_vdc]

NoArgs == SendArgs(EpochDate, None, None, None, None, None, None, None, None,
                   FALSE)

\* a payload builder without the comparison with the stored value
IncludesEnergyAlways(a, last) == a.energy_gen.some

\* line 347: energy_gen is not None and self._wh_today_last != energy_gen
IncludesEnergy(a, last) ==
    a.energy_gen.some /\ ~RatEq(Float(last), a.energy_gen.v)

\* an efficiency test that does not look at the sign of power_vdc
IncludesEfficiencyNoSign(a) == a.power_vdc.some /\ a.power_gen.some

\* line 374: power_vdc is not None and power_vdc > 0 and power_gen is not None
IncludesEfficiency(a) ==
    a.power_vdc.some /\ RatPos(a.power_vdc.v) /\ a.power_gen.some

\* the keys of the payload that send_status builds (lines 339-375)
PayloadKeys(a, last) ==
    {"d", "t", "c1"}
    \cup (IF IncludesEnergy(a, last) THEN {"v1"} ELSE {})
    \cup (IF a.power_gen.some THEN {"v2"} ELSE {})
    \cup (IF a.energy_imp.some THEN {"v3"} ELSE {})
    \cup (IF a.power_imp.some THEN {"v4"} ELSE {})
    \cup (IF a.temp.some THEN {"v5"} ELSE {})
    \cup (IF a.vdc.some THEN {"v8"} ELSE {})
    \cup (IF a.vac.some THEN {"v6"} ELSE {})
    \cup (IF a.temp_inv.some THEN {"v9"} ELSE {})
    \cup (IF a.energy_life.some THEN {"v10"} ELSE {})
    \cup (IF a.comments.some THEN {"m1"} ELSE {})
    \cup (IF IncludesEfficiency(a) THEN {"v12"} ELSE {})

\* str(comments)[:30]
Truncate30(str) == SubSeq(str, 1, IF Len(str) < 30 THEN Len(str) ELSE 30)

PayloadValue(k, a) ==
    CASE k = "d" -> Strftime_d(a.date)
      [] k = "t" -> Strftime_t(a.date)
      [] k = "v1" -> PyInt(a.energy_gen.v)
      [] k = "v2" -> a.power_gen.v
      [] k = "v3" -> PyInt(a.energy_imp.v)
      [] k = "v4" -> a.power_imp.v
      [] k = "v5" -> a.temp.v
      [] k = "v8" -> a.vdc.v
      [] k = "c1" -> IF a.cumulative THEN 1 ELSE 0
      [] k = "v6" -> a.vac.v
      [] k = "v9" -> a.temp_inv.v
      [] k = "v10" -> PyInt(a.energy_life.v)
      [] k = "m1" -> Truncate30(a.comments.v)
      [] k = "v12" -> RatMul(RatDiv(a.power_gen.v, a.power_vdc.v), Float(100))

\* the payload of send_status for arguments a when _wh_today_last = last
SendStatusPayload(a, last) ==
    [k \in PayloadKeys(a, last) |-> PayloadValue(k, a)]

\* _wh_today_last after send_status (line 348)
SendStatusLast(a, last) ==
    IF IncludesEnergy(a, last) THEN PyInt(a.energy_gen.v) ELSE last

\* Response.raise_for_status(): HTTPError for 4xx and 5xx
RaisesForStatus(status) == 400 <= status /\ status < 600

Is2xx(status) == 200 <= status /\ status < 300

\* a retry loop that makes one pass too many
HasNextAttemptOffByOne(a) == a < MaxAttempts + 1

\* range(3) of __call: is there another pass after pass number a (1-based)
HasNextAttempt(a) == a < MaxAttempts

\* line 311: reset = round(float(r.headers['X-Rate-Limit-Reset']) - time()),
\* the difference being given in half seconds
ResetSeconds(resetHalves) == PyRoundHalves(resetHalves)

\* line 317: the argument of sleep on a 403
RateLimitSleep(r) == r + 1

\* what requests.post can do
StatusCodes == {200, 403, 500}
\* X-Rate-Limit-Reset minus time(), in half seconds, when the clock reads c:
\* a timestamp in the past (10, 1.5 or 1 second ago), or the top of the
\* next hour, when the service's hourly request budget is renewed
ResetDeltas(c) == {-20, -3, -2, 2 * (3600 - (c % 3600))}
PostOutcomes(c) ==
    { [kind |-> k, status |-> 0, headers |-> FALSE, resetDelta |-> 0] :
          k \in {"ConnectionError", "Timeout"} }
    \cup { [kind |-> "response", status |-> st, headers |-> FALSE, resetDelta |-> 0] :
          st \in StatusCodes }
    \cup { [kind |-> "response", status |-> 403, headers |-> TRUE, resetDelta |-> d] :
          d \in ResetDeltas(c) }
    \cup { [kind |-> "response", status |-> st, headers |-> TRUE, resetDelta |-> 590] :
          st \in StatusCodes \ {403} }

(***************************************************************************)
(* Initial state                                                           *)
(***************************************************************************)
\* what one __call has done so far
CallInit ==
    [posts |-> 0, ok |-> FALSE, fail403 |-> 0, failOther |-> 0,
     giveups |-> 0, pending403 |-> FALSE, need |-> 0, slept |-> 0,
     gapOk |-> TRUE, postsAfterOk |-> 0, sleepsAfterOk |-> 0,
     returned |-> FALSE, raised |-> FALSE, lastBefore |-> 0,
     prevEnergy |-> None, entry |-> "none", url |-> "none"]

\* what one iteration of the poll loop has done so far
IterInit ==
    [read |-> "none", uploads |-> 0, upload |-> "none", publishes |-> 0,
     mqtt |-> "none", sleeps |-> 0, slept |-> 0]

\* the message-bus session before main_loop creates it (line 428)
MqttNone == [client |-> "none", loop |-> FALSE, offline |-> FALSE]

\* lines 442-448: client created, connected, network loop started
MqttConnected == [client |-> "connected", loop |-> TRUE, offline |-> FALSE]

\* no decoding function under test
CodecIdle == [op |-> "none", registers |-> <<>>, index |-> 0, start |-> 0,
              count |-> 0, out |-> <<>>]

\* what has gone out so far
SentInit ==
    [lastEnergy |-> 0, argEnergy |-> None, minutes |-> {}, dup |-> FALSE,
     offSlot |-> FALSE, gaveUpDate |-> EpochDate]

\* local times at which the program is started:
\* 04:59:58, 05:04:50 and 20:59:45 of day 0
StartClocks == {17998, 18290, 75585}

InitCommon ==
    /\ testMode \in BOOLEAN
    /\ iter = 0
    /\ conn = "Closed"
    /\ inv = InverterInit
    /\ wh_today_last = 0
    /\ payload = SendStatusPayload(NoArgs, 0)
    /\ args = NoArgs
    /\ attempt = 0
    /\ reset = 0
    /\ last_pvo_minute = NoMinute
    /\ now = EpochDate
    /\ hour = 0
    /\ minute = 0
    /\ mqtt = MqttNone
    /\ exc = "none"
    /\ exit_code = None
    /\ call = CallInit
    /\ it = IterInit
    /\ lastCall = [op |-> "none", kind |-> "none", from |-> "Closed",
                   accessed |-> {}]
    /\ sent = SentInit

\* the process starts main_loop
Init ==
    /\ InitCommon
    /\ codec = CodecIdle
    /\ drift = 0
    /\ clock \in StartClocks
    /\ pc = "init_connect"
    /\ ret = "after_send"

\* the seconds that may have passed since the last step when the clock is
\* read: none or one, within the model's bound
Delays == {d \in {0, 1} : drift + d <= MaxDrift}

\* how a read_inputs or version call with result r went
CallKind(c, portOk, r) ==
    IF Connect(c, portOk) # "Open" THEN "connect_failed"
    ELSE IF r.exc # "none" THEN "raised"
    ELSE IF r.ok THEN "ok" ELSE "read_error"

(***************************************************************************)
(* main_loop: start-up (lines 421-461)                                     *)
(***************************************************************************)
\* line 422: inv.connect()
InitConnect ==
    /\ pc = "init_connect"
    /\ \E portOk \in BOOLEAN : conn' = Connect(conn, portOk)
    /\ pc' = "init_version"
    /\ UNCHANGED <<exit_code, codec, testMode, drift, ret, clock, iter, inv, wh_today_last, payload,
                   attempt, reset, last_pvo_minute, now, hour, minute, mqtt,
                   exc, call, it, lastCall, sent, args>>

\* line 423: inv.version()
InitVersion ==
    /\ pc = "init_version"
    /\ \E portOk \in BOOLEAN, rr \in HoldingReplies :
          LET r == version(inv, conn, portOk, rr)
          IN  /\ inv' = r.inv
              /\ conn' = r.conn
              /\ lastCall' = [op |-> "version",
                               kind |-> CallKind(conn, portOk, r),
                               from |-> conn,
                               accessed |-> VersionAccesses(conn, portOk, rr)]
    /\ pc' = "init_mqtt"
    /\ UNCHANGED <<exit_code, codec, testMode, drift, ret, clock, iter, wh_today_last, payload,
                   attempt, reset, last_pvo_minute, now, hour, minute, mqtt,
                   exc, call, it, sent, args>>

\* lines 425-461: the uploader, the MQTT session and the loop's locals
InitMqtt ==
    /\ pc = "init_mqtt"
    /\ wh_today_last' = 0
    /\ mqtt' = IF testMode THEN MqttNone ELSE MqttConnected
    /\ last_pvo_minute' = NoMinute
    /\ pc' = "loop"
    /\ UNCHANGED <<exit_code, codec, testMode, drift, ret, clock, iter, conn, inv, payload, attempt,
                   reset, now, hour, minute, exc, call, it, lastCall, sent,
                   args>>

(***************************************************************************)
(* main_loop: the poll loop (lines 464-535)                                *)
(***************************************************************************)
\* line 466: shStart <= localnow().hour < shStop
InWindow(h) == shStart <= h /\ h < shStop

LoopTop ==
    /\ pc = "loop"
    /\ iter < MaxIter
    /\ iter' = iter + 1
    /\ it' = IterInit
    /\ \E d \in Delays :
          /\ clock' = clock + d
          /\ drift' = drift + d
          /\ pc' = IF InWindow(HourOf(clock')) THEN "read_inputs"
                   ELSE "shift_hour"
    /\ UNCHANGED <<exit_code, codec, testMode, ret, conn, inv, wh_today_last, payload, attempt,
                   reset, last_pvo_minute, now, hour, minute, mqtt, exc, call,
                   lastCall, sent, args>>

\* line 468: inv.read_inputs() starts; lines 176-178: the port is opened,
\* or the call returns False at once
ReadConnect ==
    /\ pc = "read_inputs"
    /\ \E portOk \in BOOLEAN :
          /\ conn' = Connect(conn, portOk)
          /\ IF Connect(conn, portOk) = "Open"
             THEN /\ pc' = "read_registers"
                  /\ lastCall' = [op |-> "read_inputs", kind |-> "reading",
                                   from |-> conn, accessed |-> {}]
                  /\ UNCHANGED it
             ELSE /\ pc' = "check_status"
                  /\ lastCall' = [op |-> "read_inputs",
                                   kind |-> "connect_failed",
                                   from |-> conn, accessed |-> {}]
                  /\ it' = [it EXCEPT !.read = "connect_failed"]
    /\ UNCHANGED <<exit_code, codec, testMode, drift, ret, clock, iter, inv,
                   wh_today_last, payload, attempt, reset, last_pvo_minute,
                   now, hour, minute, mqtt, exc, call, sent, args>>

\* lines 182-217: read_input_registers returns rr on the open handle; the
\* reply is decoded, or the status is set to -1 and the handle closed
ReadInputs ==
    /\ pc = "read_registers"
    /\ \E rr \in InputReplies, d \in Delays :
          LET r == read_inputs(inv, conn, TRUE, rr, clock + d)
          IN  /\ inv' = r.inv
              /\ conn' = r.conn
              /\ clock' = IF StampsReading(conn, TRUE, rr) THEN clock + d
                          ELSE clock
              /\ drift' = IF StampsReading(conn, TRUE, rr) THEN drift + d
                          ELSE drift
              /\ lastCall' = [op |-> "read_inputs",
                               kind |-> CallKind(conn, TRUE, r),
                               from |-> lastCall.from,
                               accessed |-> ReadInputsAccesses(conn, TRUE, rr)]
              /\ it' = [it EXCEPT !.read = CallKind(conn, TRUE, r)]
              /\ exc' = r.exc
              /\ pc' = IF r.exc # "none" THEN "finally" ELSE "check_status"
    /\ UNCHANGED <<exit_code, codec, testMode, ret, iter, wh_today_last, payload, attempt,
                   reset, last_pvo_minute, now, hour, minute, mqtt, call,
                   sent, args>>

\* a loop that does not look at the status
HasReadingAlways(i) == TRUE

\* line 469: if inv.status != -1
HasReading(i) == i.status # NoStatus

CheckStatus ==
    /\ pc = "check_status"
    /\ pc' = IF HasReading(inv) THEN "slot" ELSE "poll_sleep"
    /\ UNCHANGED <<exit_code, codec, testMode, drift, ret, clock, iter, conn, inv, wh_today_last,
                   payload, attempt, reset, last_pvo_minute, now, hour, minute,
                   mqtt, exc, call, it, lastCall, sent, args>>

\* a slot test that forgets the minute of the last upload
SlotOpenNoGuard(m, last) == m % 5 = 0

\* line 473: now.minute % 5 == 0 and now.minute != last_pvo_minute
SlotOpen(m, last) == m % 5 = 0 /\ m # last

\* lines 474-478: the arguments main_loop passes to send_status
LoopArgs(i) ==
    SendArgs(i.date, Some(i.wh_today), Some(i.ac_power), Some(i.pv_volts1),
             Some(i.ac_volts), Some(i.temp), Some(i.wh_total),
             Some(i.pv_power_total), None, FALSE)

\* lines 472-474: read the clock, decide whether to upload
Slot ==
    /\ pc = "slot"
    /\ \E d \in Delays :
          /\ clock' = clock + d
          /\ drift' = drift + d
          /\ now' = clock'
          /\ IF SlotOpen(MinuteOf(now'), last_pvo_minute)
             THEN /\ pc' = "send_status"
                  /\ ret' = "after_send"
                  /\ args' = LoopArgs(inv)
                  /\ it' = [it EXCEPT !.uploads = @ + 1, !.upload = "invoked"]
                  /\ sent' = [sent EXCEPT
                        !.minutes = @ \cup {CalendarMinute(now')},
                        !.dup = @ \/ CalendarMinute(now') \in sent.minutes,
                        !.offSlot = @ \/ MinuteOf(now') % 5 # 0]
             ELSE /\ pc' = "publish"
                  /\ it' = [it EXCEPT !.upload = "skipped"]
                  /\ UNCHANGED <<ret, args, sent>>
    /\ UNCHANGED <<exit_code, codec, testMode, iter, conn, inv, wh_today_last, payload, attempt,
                   reset, last_pvo_minute, hour, minute, mqtt, exc, call,
                   lastCall>>

(***************************************************************************)
(* PVOutputAPI.send_status and PVOutputAPI.__call (lines 300-381)          *)
(***************************************************************************)
\* a send_status that posts in test mode too
PostsPayloadAlways(tm) == TRUE

\* line 378: the payload goes to add_status unless TEST_MODE
PostsPayload(tm) == ~tm

\* lines 339-381: build the payload, then log it (test mode) or hand it to
\* add_status / __call
SendStatus ==
    /\ pc = "send_status"
    /\ payload' = SendStatusPayload(args, wh_today_last)
    /\ wh_today_last' = SendStatusLast(args, wh_today_last)
    /\ call' = [CallInit EXCEPT !.returned = ~PostsPayload(testMode),
                                !.lastBefore = wh_today_last,
                                !.prevEnergy = sent.argEnergy,
                                !.entry = "send_status",
                                !.url = IF PostsPayload(testMode)
                                        THEN "addstatus.jsp" ELSE "none"]
    /\ sent' = [sent EXCEPT !.argEnergy = args.energy_gen]
    /\ attempt' = 1
    /\ pc' = IF PostsPayload(testMode) THEN "post" ELSE "send_return"
    /\ UNCHANGED <<exit_code, codec, testMode, drift, ret, clock, iter, conn, inv, reset,
                   last_pvo_minute, now, hour, minute, mqtt, exc, it,
                   lastCall, args>>

\* a loop body that lacks the break after a good response
AfterPostNoBreak(o) ==
    IF o.kind # "response" THEN "retry_sleep"
    ELSE IF ~o.headers THEN "KeyError"
    ELSE IF o.status = 403 THEN "sleep_403"
    ELSE "retry_sleep"

\* where one pass of the loop of __call goes after requests.post returned o
\* (lines 310-328)
AfterPost(o) ==
    IF o.kind # "response" THEN "retry_sleep"        \* caught, logged
    ELSE IF ~o.headers THEN "KeyError"               \* r.headers[...] raises
    ELSE IF o.status = 403 THEN "sleep_403"
    ELSE IF RaisesForStatus(o.status) THEN "retry_sleep"  \* HTTPError caught
    ELSE "break"

\* line 310 and the handling of its result up to line 328
Post ==
    /\ pc = "post"
    /\ \E o \in PostOutcomes(clock) :
          LET next == AfterPost(o)
              gap == call.pending403 => call.slept >= call.need
          IN  /\ reset' = IF o.kind = "response" /\ o.headers
                        THEN ResetSeconds(o.resetDelta) ELSE reset
              /\ sent' = [sent EXCEPT
                    !.lastEnergy = IF o.kind = "response"
                                      /\ "v1" \in DOMAIN payload
                                   THEN payload["v1"] ELSE @]
              /\ call' = [call EXCEPT
                    !.posts = @ + 1,
                    !.postsAfterOk = IF call.ok THEN @ + 1 ELSE @,
                    !.gapOk = @ /\ gap,
                    !.slept = 0,
                    !.pending403 = (next = "sleep_403"),
                    !.need = IF next = "sleep_403"
                             THEN RateLimitSleep(ResetSeconds(o.resetDelta))
                             ELSE 0,
                    !.ok = @ \/ (o.kind = "response" /\ Is2xx(o.status)),
                    !.fail403 = IF next = "sleep_403" THEN @ + 1 ELSE @,
                    !.failOther = IF next = "retry_sleep" THEN @ + 1 ELSE @,
                    !.raised = (next = "KeyError"),
                    !.returned = (next = "break")]
              /\ exc' = IF next = "KeyError" THEN "KeyError" ELSE exc
              /\ pc' = CASE next = "KeyError" -> "finally"
                         [] next = "break" -> "send_return"
                         [] OTHER -> next
    /\ UNCHANGED <<exit_code, codec, testMode, drift, ret, clock, iter, conn, inv, wh_today_last,
                   payload, attempt, last_pvo_minute, now, hour, minute, mqtt,
                   it, lastCall, args>>

\* line 317: sleep(reset + 1); time.sleep raises ValueError when negative
Sleep403 ==
    /\ pc = "sleep_403"
    /\ LET s == RateLimitSleep(reset)
       IN  IF s < 0
           THEN /\ exc' = "ValueError"
                /\ call' = [call EXCEPT !.raised = TRUE]
                /\ pc' = "finally"
                /\ UNCHANGED clock
           ELSE /\ clock' = clock + s
                /\ call' = [call EXCEPT !.slept = @ + s]
                /\ pc' = "retry_sleep"
                /\ UNCHANGED exc
    /\ UNCHANGED <<exit_code, codec, testMode, drift, ret, iter, conn, inv, wh_today_last, payload,
                   attempt, reset, last_pvo_minute, now, hour, minute, mqtt,
                   it, lastCall, sent, args>>

\* line 330: sleep(5), then the next pass of range(3) or the else clause
\* of the for loop (line 332)
RetryNext ==
    /\ pc = "retry_sleep"
    /\ clock' = clock + RetrySleep
    /\ IF HasNextAttempt(attempt)
       THEN /\ attempt' = attempt + 1
            /\ call' = [call EXCEPT
                  !.slept = @ + RetrySleep,
                  !.sleepsAfterOk = IF call.ok THEN @ + 1 ELSE @]
            /\ pc' = "post"
       ELSE /\ call' = [call EXCEPT
                  !.slept = @ + RetrySleep,
                  !.sleepsAfterOk = IF call.ok THEN @ + 1 ELSE @,
                  !.giveups = @ + 1,
                  !.returned = TRUE]
            /\ pc' = "send_return"
            /\ UNCHANGED attempt
    /\ sent' = IF ~HasNextAttempt(attempt) /\ ret = "after_send"
               THEN [sent EXCEPT !.gaveUpDate = args.date] ELSE sent
    /\ UNCHANGED <<exit_code, codec, testMode, drift, ret, iter, conn, inv, wh_today_last, payload,
                   reset, last_pvo_minute, now, hour, minute, mqtt, exc, it,
                   lastCall, args>>

\* send_status returns to its caller (after line 379 or 381); its locals
\* and those of __call are gone
SendReturn ==
    /\ pc = "send_return"
    /\ pc' = ret
    /\ payload' = SendStatusPayload(NoArgs, 0)
    /\ args' = NoArgs
    /\ attempt' = 0
    /\ reset' = 0
    /\ call' = CallInit
    /\ it' = IF ret = "after_send"
             THEN [it EXCEPT !.upload = IF call.ok THEN "ok"
                                        ELSE IF call.giveups > 0 THEN "gave_up"
                                        ELSE "logged"]
             ELSE it
    /\ UNCHANGED <<exit_code, codec, testMode, drift, ret, clock, iter, conn, inv, wh_today_last,
                   last_pvo_minute, now, hour, minute, mqtt, exc,
                   lastCall, sent>>

(***************************************************************************)
(* main_loop: after the upload                                             *)
(***************************************************************************)
\* lines 479-480
AfterSend ==
    /\ pc = "after_send"
    /\ last_pvo_minute' = MinuteOf(now)
    /\ pc' = "publish"
    /\ UNCHANGED <<exit_code, codec, testMode, drift, ret, clock, iter, conn, inv, wh_today_last,
                   payload, attempt, reset, now, hour, minute, mqtt, exc, call,
                   it, lastCall, sent, args>>

\* a publish block without the try/except around mqtt_client.publish
PublishUncaught ==
    /\ pc = "publish"
    /\ \E raises \in (IF testMode THEN {FALSE} ELSE BOOLEAN) :
          /\ it' = [it EXCEPT !.publishes = @ + 1,
                              !.mqtt = IF testMode THEN "logged"
                                       ELSE IF raises THEN "failed"
                                       ELSE "published"]
          /\ exc' = IF raises THEN "Exception" ELSE exc
          /\ pc' = IF raises THEN "finally" ELSE "poll_sleep"
    /\ UNCHANGED <<exit_code, codec, testMode, drift, ret, clock, iter, conn,
                   inv, wh_today_last, payload, attempt, reset,
                   last_pvo_minute, now, hour, minute, mqtt, call, lastCall,
                   sent, args>>

\* lines 483-514: build state_values and hand them to the publisher: logged
\* in test mode, else published; an exception of publish is caught and logged
Publish ==
    /\ pc = "publish"
    /\ \E raises \in (IF testMode THEN {FALSE} ELSE BOOLEAN) :
          it' = [it EXCEPT !.publishes = @ + 1,
                           !.mqtt = IF testMode THEN "logged"
                                    ELSE IF raises THEN "failed"
                                    ELSE "published"]
    /\ pc' = "poll_sleep"
    /\ UNCHANGED <<exit_code, codec, testMode, drift, ret, clock, iter, conn, inv, wh_today_last,
                   payload, attempt, reset, last_pvo_minute, now, hour, minute,
                   mqtt, exc, call, lastCall, sent, args>>

\* a loop that backs off twice as long after a failed read
PollSleepBackoff ==
    /\ pc = "poll_sleep"
    /\ LET s == IF it.read = "ok" THEN POLL_INTERVAL ELSE 2 * POLL_INTERVAL
       IN  /\ clock' = clock + s
           /\ it' = [it EXCEPT !.sleeps = @ + 1, !.slept = s]
    /\ pc' = "loop"
    /\ UNCHANGED <<exit_code, codec, testMode, drift, ret, iter, conn, inv,
                   wh_today_last, payload, attempt, reset, last_pvo_minute,
                   now, hour, minute, mqtt, exc, call, lastCall, sent, args>>

\* lines 516 and 520: sleep(POLL_INTERVAL)
PollSleep ==
    /\ pc = "poll_sleep"
    /\ clock' = clock + POLL_INTERVAL
    /\ it' = [it EXCEPT !.sleeps = @ + 1, !.slept = POLL_INTERVAL]
    /\ pc' = "loop"
    /\ UNCHANGED <<exit_code, codec, testMode, drift, ret, iter, conn, inv, wh_today_last, payload,
                   attempt, reset, last_pvo_minute, now, hour, minute, mqtt,
                   exc, call, lastCall, sent, args>>

\* line 523: hour = localnow().hour
ShiftHour ==
    /\ pc = "shift_hour"
    /\ \E d \in Delays :
          /\ clock' = clock + d
          /\ drift' = drift + d
          /\ hour' = HourOf(clock')
    /\ pc' = "shift_minute"
    /\ UNCHANGED <<exit_code, codec, testMode, ret, iter, conn, inv, wh_today_last, payload,
                   attempt, reset, last_pvo_minute, now, minute, mqtt, exc,
                   call, it, lastCall, sent, args>>

\* line 524: minute = localnow().minute
ShiftMinute ==
    /\ pc = "shift_minute"
    /\ \E d \in Delays :
          /\ clock' = clock + d
          /\ drift' = drift + d
          /\ minute' = MinuteOf(clock')
    /\ pc' = "shift_sleep"
    /\ UNCHANGED <<exit_code, codec, testMode, ret, iter, conn, inv, wh_today_last, payload,
                   attempt, reset, last_pvo_minute, now, hour, mqtt, exc,
                   call, it, lastCall, sent, args>>

\* a scheduler whose evening branch forgets the wrap over midnight
SnoozeNoWrap(h, m) ==
    IF 24 > h /\ h >= shStop THEN ((shStart - h) * 60) - m
    ELSE IF shStart > h /\ h >= 0 THEN ((shStart - h) * 60) - m
    ELSE 1

\* a scheduler whose last branch does not wait at all
SnoozeNoFallback(h, m) ==
    IF 24 > h /\ h >= shStop THEN (((shStart - h) + 24) * 60) - m
    ELSE IF shStart > h /\ h >= 0 THEN ((shStart - h) * 60) - m
    ELSE 0

\* lines 525-532: minutes until the next shift
Snooze(h, m) ==
    IF 24 > h /\ h >= shStop THEN (((shStart - h) + 24) * 60) - m
    ELSE IF shStart > h /\ h >= 0 THEN ((shStart - h) * 60) - m
    ELSE 1

\* lines 533-535: sleep(snooze * 60)
ShiftSleep ==
    /\ pc = "shift_sleep"
    /\ clock' = clock + Snooze(hour, minute) * 60
    /\ it' = [it EXCEPT !.sleeps = @ + 1, !.slept = Snooze(hour, minute) * 60]
    /\ pc' = "loop"
    /\ UNCHANGED <<exit_code, codec, testMode, drift, ret, iter, conn, inv, wh_today_last, payload,
                   attempt, reset, last_pvo_minute, now, hour, minute, mqtt,
                   exc, call, lastCall, sent, args>>

\* a finally clause that leaves the session as it is
MqttShutdownSkipped(m) == m

\* lines 537-541: publish the offline availability, disconnect, stop the
\* network loop, if there is a client
MqttShutdown(m) ==
    IF m.client # "none"
    THEN [client |-> "disconnected", loop |-> FALSE, offline |-> TRUE]
    ELSE m

\* the positions of main_loop inside its try block (lines 464-535), the
\* uploader's included while main_loop is its caller
LoopPcs ==
    {"loop", "read_inputs", "read_registers", "check_status", "slot", "send_status", "post",
     "sleep_403", "retry_sleep", "send_return", "after_send", "publish",
     "poll_sleep", "shift_hour", "shift_minute", "shift_sleep"}

\* SIGINT arrives while the poll loop runs: KeyboardInterrupt is raised at
\* the current statement; no except clause of the loop, of send_status or of
\* __call catches it (they name Exception or requests' exceptions)
Interrupt ==
    /\ pc \in LoopPcs
    /\ ret = "after_send"
    /\ exc' = "KeyboardInterrupt"
    /\ pc' = "finally"
    /\ lastCall' = IF pc = "read_registers"
                   THEN [lastCall EXCEPT !.kind = "raised"]
                   ELSE lastCall
    /\ UNCHANGED <<exit_code, codec, testMode, drift, ret, clock, iter, conn, inv,
                   wh_today_last, payload, attempt, reset, last_pvo_minute,
                   now, hour, minute, mqtt, call, it, sent, args>>

\* lines 536-541: the finally clause, run when an exception leaves the loop
Finally ==
    /\ pc = "finally"
    /\ mqtt' = MqttShutdown(mqtt)
    /\ pc' = "main_except"
    /\ UNCHANGED <<exit_code, codec, testMode, drift, ret, clock, iter, conn, inv, wh_today_last,
                   payload, attempt, reset, last_pvo_minute, now, hour, minute,
                   exc, call, it, lastCall, sent, args>>

\* lines 545-549: sys.exit(0) for KeyboardInterrupt; any other exception
\* ends the interpreter with a traceback and status 1
ExitStatus(e) == IF e = "KeyboardInterrupt" THEN 0 ELSE 1

Main ==
    /\ pc = "main_except"
    /\ exit_code' = Some(ExitStatus(exc))
    /\ pc' = "exited"
    /\ UNCHANGED <<codec, testMode, drift, ret, clock, iter, conn, inv,
                   wh_today_last, payload, attempt, reset, last_pvo_minute,
                   now, hour, minute, mqtt, exc, call, it, lastCall, sent,
                   args>>

Next ==
    \/ InitConnect
    \/ InitVersion
    \/ InitMqtt
    \/ LoopTop
    \/ ReadConnect
    \/ ReadInputs
    \/ CheckStatus
    \/ Slot
    \/ SendStatus
    \/ Post
    \/ Sleep403
    \/ RetryNext
    \/ SendReturn
    \/ AfterSend
    \/ Publish
    \/ PollSleep
    \/ ShiftHour
    \/ ShiftMinute
    \/ ShiftSleep
    \/ Interrupt
    \/ Finally
    \/ Main

Spec == Init /\ [][Next]_vars

(***************************************************************************)
(* The uploader on its own: any sequence of send_status calls              *)
(***************************************************************************)
\* arguments a caller can pass: energy in whole Wh as read_inputs yields it
\* (register value / 0.01), or no energy; PV power absent, zero, negative
\* or positive
ApiEnergies == {None, Some(Float(0)), Some(Rat(100, 1)), Some(Rat(20000, 100))}
ApiPowers == {None, Some(Rat(4000, 10))}
ApiPvPowers == {None, Some(Float(0)), Some(Rat(-50, 10)), Some(Rat(5000, 10))}
ApiComment == Some(<<71, 114, 111, 119, 97, 116, 116>>)
ApiArgs ==
    { SendArgs(clock, e, Some(Rat(4000, 10)), None, None, None, None,
               Some(Rat(5000, 10)), None, FALSE) : e \in ApiEnergies }
    \cup { SendArgs(clock, None, p, None, None, None, None, v, ApiComment,
                    TRUE) : p \in ApiPowers, v \in ApiPvPowers }

InitApi ==
    /\ InitCommon
    /\ codec = CodecIdle
    /\ drift = 0
    /\ clock = 0
    /\ pc = "api_idle"
    /\ ret = "api_idle"

\* a caller invokes pvo.send_status(...)
ApiSendStatus ==
    /\ pc = "api_idle"
    /\ iter < MaxCalls
    /\ iter' = iter + 1
    /\ \E a \in ApiArgs : args' = a
    /\ pc' = "send_status"
    /\ UNCHANGED <<exit_code, codec, testMode, drift, ret, clock, conn, inv, wh_today_last,
                   payload, attempt, reset, last_pvo_minute, now, hour, minute,
                   mqtt, exc, call, it, lastCall, sent>>

\* payloads a caller hands to add_status and add_output itself
ApiStatusPayloads ==
    { [d |-> Strftime_d(clock), t |-> Strftime_t(clock), v1 |-> 300] }
ApiOutputPayloads ==
    { [d |-> Strftime_d(clock), g |-> 300] }

\* a caller invokes pvo.add_status(payload) (lines 288-292): __call posts
\* the payload as it is to addstatus.jsp, in test mode too; _wh_today_last
\* is not touched
ApiAddStatus ==
    /\ pc = "api_idle"
    /\ iter < MaxCalls
    /\ iter' = iter + 1
    /\ \E pl \in ApiStatusPayloads : payload' = pl
    /\ call' = [CallInit EXCEPT !.entry = "add_status",
                                !.url = "addstatus.jsp"]
    /\ attempt' = 1
    /\ pc' = "post"
    /\ UNCHANGED <<exit_code, codec, testMode, drift, ret, clock, conn, inv,
                   wh_today_last, reset, last_pvo_minute, now, hour, minute,
                   mqtt, exc, it, lastCall, sent, args>>

\* a caller invokes pvo.add_output(payload) (lines 294-298): the same with
\* addoutput.jsp
ApiAddOutput ==
    /\ pc = "api_idle"
    /\ iter < MaxCalls
    /\ iter' = iter + 1
    /\ \E pl \in ApiOutputPayloads : payload' = pl
    /\ call' = [CallInit EXCEPT !.entry = "add_output",
                                !.url = "addoutput.jsp"]
    /\ attempt' = 1
    /\ pc' = "post"
    /\ UNCHANGED <<exit_code, codec, testMode, drift, ret, clock, conn, inv,
                   wh_today_last, reset, last_pvo_minute, now, hour, minute,
                   mqtt, exc, it, lastCall, sent, args>>

NextApi ==
    \/ ApiSendStatus
    \/ ApiAddStatus
    \/ ApiAddOutput
    \/ SendStatus
    \/ Post
    \/ Sleep403
    \/ RetryNext
    \/ SendReturn

SpecApi == InitApi /\ [][NextApi]_vars

(***************************************************************************)
(* The shift scheduler on its own: the loop at any minute of the day       *)
(***************************************************************************)
\* every minute of day 0, at its first and at its last second
ShiftClocks == {60 * k + sec : k \in 0..1439, sec \in {0, 59}}

\* main_loop at the top of its loop in test mode, the serial port not
\* openable at start-up; the clock reads of one iteration (lines 466, 523
\* and 524) fall in the same second, so hour and minute are one reading
InitShift ==
    /\ InitCommon
    /\ testMode = TRUE
    /\ codec = CodecIdle
    /\ drift = MaxDrift
    /\ clock \in ShiftClocks
    /\ pc = "loop"
    /\ ret = "after_send"

NextShift ==
    \/ LoopTop
    \/ ShiftHour
    \/ ShiftMinute
    \/ ShiftSleep

SpecShift == InitShift /\ [][NextShift]_vars

\* the same loop with the clock running on between its three reads of an
\* iteration (lines 466, 523 and 524): up to MaxDrift seconds pass in all
InitShiftLive ==
    /\ InitCommon
    /\ testMode = TRUE
    /\ codec = CodecIdle
    /\ drift = 0
    /\ clock \in ShiftClocks
    /\ pc = "loop"
    /\ ret = "after_send"

\* main_loop is one thread: whenever it has a next statement it executes it,
\* and every sleep returns
SpecShiftLive == InitShiftLive /\ [][NextShift]_vars /\ WF_vars(NextShift)

(***************************************************************************)
(* The register codec on its own: the decoding functions on given blocks   *)
(***************************************************************************)
\* longest string decoded, in registers
MaxCount == 3

\* the offsets of the double registers read_inputs decodes (lines 190-207)
\* and of the model number in version (line 257)
DoubleOffsets == {1, 5, 9, 11, 26, 28, 30}

\* 16-bit register values: the ends of the range, the byte boundaries and
\* words with four different nibbles
Words == {0, 1, 255, 256, 13398, 43981, 65535}

\* high words: the shifted value has to fit the 32-bit integers of the
\* model checker, so the largest is 0x7FFF
HighWords == {0, 1, 18, 255, 256, 4660, 32767}

\* the largest high word given to read_inputs: its energy in Wh
\* (raw / 0.01) has to fit the integers of the model checker as well
MaxScaledHigh == 256

\* a block of n registers with status st and the words hi, lo at o, o+1
CodecBlock(n, st, o, hi, lo) ==
    Image(n, (0 :> st) @@ (o :> hi) @@ ((o + 1) :> lo))

InitCodec ==
    /\ InitCommon
    /\ testMode = TRUE
    /\ drift = 0
    /\ clock = 0
    /\ pc = "codec_idle"
    /\ ret = "codec_idle"
    /\ \E n \in {45, 46}, st \in DOMAIN STATUSCODES, o \in DoubleOffsets,
          hi \in HighWords, lo \in Words :
          codec = [CodecIdle EXCEPT !.registers = CodecBlock(n, st, o, hi, lo),
                                    !.index = o]

\* the scale read_inputs passes to _rsdf for the double at index: 0.01 at
\* 26 and 28 (lines 205-206), 7200 at 30 (line 207), else the default 10
RsdfScale(index) ==
    IF index \in {26, 28} THEN ScaleWh
    ELSE IF index = 30 THEN ScaleHours
    ELSE Scale10

\* _rsdf(registers, index, scale) as read_inputs calls it for this index;
\* a division by 0.01 is taken only where the quotient fits the integers
\* of the model checker
CodecRsdf ==
    /\ pc = "codec_idle"
    /\ pc' = "codec_done"
    /\ RsdfScale(codec.index) = ScaleWh
          => codec.registers[codec.index] <= MaxScaledHigh
    /\ codec' = [codec EXCEPT
          !.op = "_rsdf",
          !.out = _rsdf(codec.registers, codec.index, RsdfScale(codec.index))]
    /\ UNCHANGED <<exit_code, testMode, drift, ret, clock, iter, conn, inv,
                   wh_today_last, payload, attempt, reset, last_pvo_minute,
                   now, hour, minute, mqtt, exc, call, it, lastCall, sent,
                   args>>

\* read_inputs on the block, the port openable
CodecReadInputs ==
    /\ pc = "codec_idle"
    /\ pc' = "codec_done"
    /\ codec.registers[codec.index] <= MaxScaledHigh
    /\ LET r == read_inputs(inv, conn, TRUE, Reply(codec.registers), clock)
       IN  /\ inv' = r.inv
           /\ conn' = r.conn
           /\ lastCall' = [op |-> "read_inputs",
                            kind |-> CallKind(conn, TRUE, r), from |-> conn,
                               accessed |-> ReadInputsAccesses(conn, TRUE, Reply(codec.registers))]
    /\ codec' = [codec EXCEPT !.op = "read_inputs", !.out = <<>>]
    /\ UNCHANGED <<exit_code, testMode, drift, ret, clock, iter,
                   wh_today_last, payload, attempt, reset, last_pvo_minute,
                   now, hour, minute, mqtt, exc, call, it, sent, args>>

\* version on the block, the port openable
CodecVersion ==
    /\ pc = "codec_idle"
    /\ pc' = "codec_done"
    /\ LET r == version(inv, conn, TRUE, Reply(codec.registers))
       IN  /\ inv' = r.inv
           /\ conn' = r.conn
           /\ lastCall' = [op |-> "version",
                            kind |-> CallKind(conn, TRUE, r), from |-> conn,
                               accessed |-> VersionAccesses(conn, TRUE, Reply(codec.registers))]
    /\ codec' = [codec EXCEPT !.op = "version", !.out = <<>>]
    /\ UNCHANGED <<exit_code, testMode, drift, ret, clock, iter,
                   wh_today_last, payload, attempt, reset, last_pvo_minute,
                   now, hour, minute, mqtt, exc, call, it, sent, args>>

\* _decode_registers(registers, start, count) around the given words
CodecDecode ==
    /\ pc = "codec_idle"
    /\ pc' = "codec_done"
    /\ \E start \in {codec.index - 1, codec.index, codec.index + 1},
          count \in 0..MaxCount :
          /\ start + count <= NumRegs(codec.registers)
          /\ codec' = [codec EXCEPT
                !.op = "_decode_registers", !.start = start, !.count = count,
                !.out = _decode_registers(codec.registers, start, count)]
    /\ UNCHANGED <<exit_code, testMode, drift, ret, clock, iter, conn, inv,
                   wh_today_last, payload, attempt, reset, last_pvo_minute,
                   now, hour, minute, mqtt, exc, call, it, lastCall, sent,
                   args>>

NextCodec ==
    \/ CodecRsdf
    \/ CodecReadInputs
    \/ CodecVersion
    \/ CodecDecode

SpecCodec == InitCodec /\ [][NextCodec]_vars

(***************************************************************************)
(* The inverter object on its own: any sequence of read_inputs and version *)
(* calls (identity may be decoded again on demand)                         *)
(***************************************************************************)
\* calls made on the inverter object
MaxDeviceCalls == 3

InitDevice ==
    /\ InitCommon
    /\ testMode = TRUE
    /\ codec = CodecIdle
    /\ drift = 0
    /\ clock \in {0, 17998}
    /\ pc = "dev_idle"
    /\ ret = "dev_idle"

\* a caller invokes inv.read_inputs() a second after the last call
DevReadInputs ==
    /\ pc = "dev_idle"
    /\ iter < MaxDeviceCalls
    /\ iter' = iter + 1
    /\ clock' = clock + 1
    /\ \E portOk \in BOOLEAN, rr \in InputReplies :
          LET r == read_inputs(inv, conn, portOk, rr, clock')
          IN  /\ inv' = r.inv
              /\ conn' = r.conn
              /\ lastCall' = [op |-> "read_inputs",
                               kind |-> CallKind(conn, portOk, r),
                               from |-> conn,
                               accessed |-> ReadInputsAccesses(conn, portOk, rr)]
              /\ exc' = r.exc
              /\ pc' = IF r.exc # "none" THEN "dev_raised" ELSE "dev_idle"
    /\ UNCHANGED <<exit_code, codec, testMode, drift, ret, wh_today_last,
                   payload, attempt, reset, last_pvo_minute, now, hour,
                   minute, mqtt, call, it, sent, args>>

\* a caller invokes inv.version() a second after the last call
DevVersion ==
    /\ pc = "dev_idle"
    /\ iter < MaxDeviceCalls
    /\ iter' = iter + 1
    /\ clock' = clock + 1
    /\ \E portOk \in BOOLEAN, rr \in HoldingReplies :
          LET r == version(inv, conn, portOk, rr)
          IN  /\ inv' = r.inv
              /\ conn' = r.conn
              /\ lastCall' = [op |-> "version",
                               kind |-> CallKind(conn, portOk, r),
                               from |-> conn,
                               accessed |-> VersionAccesses(conn, portOk, rr)]
    /\ UNCHANGED <<exit_code, codec, testMode, drift, ret, pc, wh_today_last,
                   payload, attempt, reset, last_pvo_minute, now, hour,
                   minute, mqtt, exc, call, it, sent, args>>

\* a caller invokes inv.connect() (lines 166-168)
DevConnect ==
    /\ pc = "dev_idle"
    /\ iter < MaxDeviceCalls
    /\ iter' = iter + 1
    /\ \E portOk \in BOOLEAN : conn' = Connect(conn, portOk)
    /\ UNCHANGED <<exit_code, codec, testMode, drift, ret, pc, clock, inv,
                   wh_today_last, payload, attempt, reset, last_pvo_minute,
                   now, hour, minute, mqtt, exc, call, it, lastCall, sent,
                   args>>

\* a caller invokes inv.close() (lines 170-172)
DevClose ==
    /\ pc = "dev_idle"
    /\ iter < MaxDeviceCalls
    /\ iter' = iter + 1
    /\ conn' = "Closed"
    /\ UNCHANGED <<exit_code, codec, testMode, drift, ret, pc, clock, inv,
                   wh_today_last, payload, attempt, reset, last_pvo_minute,
                   now, hour, minute, mqtt, exc, call, it, lastCall, sent,
                   args>>

NextDevice ==
    \/ DevReadInputs
    \/ DevVersion
    \/ DevConnect
    \/ DevClose

SpecDevice == InitDevice /\ [][NextDevice]_vars

(***************************************************************************)
(* Properties                                                              *)
(***************************************************************************)

\* C1: one __call makes at most 3 POSTs whatever the outcomes are; when all
\* three passes fail with a non-403 failure (HTTP error status, connection
\* error, timeout), exactly 3 POSTs were made, the give-up error was logged
\* once and the call returned normally.
C1_BoundedRetries ==
    /\ call.posts <= 3
    /\ (call.failOther = 3 /\ pc # "retry_sleep")
          => /\ call.posts = 3
             /\ call.giveups = 1
             /\ call.returned
             /\ ~call.raised
             /\ pc = "send_return"

\* a call whose three passes all failed with non-403 failures has returned
C1_Witness ==
    /\ pc = "send_return"
    /\ call.failOther = 3
    /\ call.giveups = 1

\* C2: no exception escapes send_status, whatever the HTTP call does.
C2_UploadNeverRaises == ~call.raised

\* C3: after a 403 on a pass that is not the last, at least
\* round(T - now) + 1 seconds are slept before the next POST, and that POST
\* is made (the call does not end in an exception instead).
C3_RateLimitThenRetry ==
    /\ call.gapOk
    /\ (call.pending403 /\ HasNextAttempt(attempt)) => ~call.raised

\* C4: once a POST got a 2xx response the call makes no further POST, sleeps
\* no more and does not log the give-up error.
C4_SuccessStops ==
    call.ok => /\ call.postsAfterOk = 0
               /\ call.sleepsAfterOk = 0
               /\ call.giveups = 0
               /\ pc \in {"send_return", "finally", "main_except", "exited"}

\* a call that succeeded on its second pass, after one failure
C4_Witness ==
    /\ pc = "send_return"
    /\ call.ok
    /\ call.returned
    /\ call.posts = 2

\* C5: when send_status is about to return, v1 is in the payload iff
\* energy_gen was supplied and differed from the value stored before the
\* call; a call with the same energy as the call before it omits v1; a
\* payload with v1 leaves the stored value equal to the energy, and a payload
\* without v1 leaves the stored value as it was.
C5_UploadDedup ==
    (pc = "send_return" /\ call.entry = "send_status") =>
        LET hasV1 == "v1" \in DOMAIN payload
        IN  /\ hasV1 <=> (/\ args.energy_gen.some
                          /\ ~RatEq(Float(call.lastBefore), args.energy_gen.v))
            /\ (/\ call.prevEnergy.some
                /\ args.energy_gen.some
                /\ RatEq(call.prevEnergy.v, args.energy_gen.v)) => ~hasV1
            /\ hasV1 => /\ RatEq(Float(wh_today_last), args.energy_gen.v)
                        /\ payload["v1"] = wh_today_last
            /\ ~hasV1 => wh_today_last = call.lastBefore

\* the second of two calls with the same non-zero energy, v1 left out
C5_Witness ==
    /\ pc = "send_return"
    /\ call.prevEnergy.some
    /\ args.energy_gen.some
    /\ RatEq(call.prevEnergy.v, args.energy_gen.v)
    /\ RatPos(args.energy_gen.v)
    /\ "v1" \notin DOMAIN payload
    /\ wh_today_last = PyInt(args.energy_gen.v)

\* C6: whenever send_status returns, the stored _wh_today_last is the
\* energy of the most recent payload that reached the API (0 if none did).
C6_StoredIsLastSent ==
    (pc = "send_return" /\ call.entry = "send_status")
        => wh_today_last = sent.lastEnergy

\* C7: send_status is invoked at most once in any calendar minute and only
\* when the local minute is a multiple of 5.
C7_SlotGuard == ~sent.dup /\ ~sent.offSlot

\* a poll with a reading in the calendar minute of an earlier upload, which
\* goes on to publish without uploading
C7_Witness ==
    /\ pc = "publish"
    /\ it.read = "ok"
    /\ it.uploads = 0
    /\ MinuteOf(now) % 5 = 0
    /\ CalendarMinute(now) \in sent.minutes

\* C8: an iteration whose read_inputs met a protocol error or a short reply
\* has status -1 after the call and neither uploads nor publishes.
C8_ReadErrorNoReading ==
    (it.read = "read_error" /\ pc # "read_inputs")
        => /\ inv.status = -1
           /\ it.uploads = 0
           /\ it.publishes = 0

\* an iteration that ended after a read error, a reading having been taken
\* before
C8_Witness ==
    /\ pc = "loop"
    /\ it.read = "read_error"
    /\ inv.date # EpochDate

\* C9: an iteration whose read_inputs could not open the serial connection
\* neither uploads nor publishes, also when an earlier poll left a valid
\* status behind.
C9_ConnectFailureNoReading ==
    (it.read = "connect_failed" /\ pc # "read_inputs")
        => /\ it.uploads = 0
           /\ it.publishes = 0

\* C10: after a read_inputs or version call that failed (connect failure,
\* protocol error, short reply) the handle is Closed; after one that
\* succeeded it is Open, also when the handle was Closed before the call.
C10_HandleLifecycle ==
    lastCall.op # "none" =>
        /\ lastCall.kind \in {"connect_failed", "read_error"} => conn = "Closed"
        /\ lastCall.kind = "ok" => conn = "Open"

\* a read_inputs that failed on an open handle and left it closed
C10_Witness ==
    /\ lastCall.op = "read_inputs"
    /\ lastCall.kind = "read_error"
    /\ lastCall.from = "Open"
    /\ conn = "Closed"

\* C11: with hour and minute taken from one reading of the clock, the loop
\* is active (no shift sleep) exactly for the hours 5..20; outside the window
\* the sleep is a whole number of minutes, at least 1, passed to sleep as
\* minutes * 60 seconds, and ends at 05:00: 04:59 gives 1 minute, 21:00 gives
\* 480 and 03:00 gives 120.
C11_ShiftSchedule ==
    /\ pc = "read_inputs" => InWindow(HourOf(clock))
    /\ pc \in {"shift_hour", "shift_minute", "shift_sleep"}
          => ~InWindow(HourOf(clock))
    /\ (pc = "loop" /\ it.sleeps = 1) =>
          LET snooze == it.slept \div 60
          IN  /\ ~InWindow(hour)
              /\ it.slept = snooze * 60
              /\ snooze >= 1
              /\ (hour * 60 + minute + snooze) % 1440 = shStart * 60
              /\ (clock \div 60) % 1440 = shStart * 60
              /\ (hour = 4 /\ minute = 59) => snooze = 1
              /\ (hour = 21 /\ minute = 0) => snooze = 480
              /\ (hour = 3 /\ minute = 0) => snooze = 120

\* the loop back at its top after the shift sleep taken at 21:00
C11_Witness ==
    /\ pc = "loop"
    /\ it.sleeps = 1
    /\ hour = 21
    /\ minute = 0
    /\ it.slept = 28800

\* C12: read_inputs never raises on a full reply, whatever the status
\* register holds.
C12_DecodeNeverRaises ==
    ~(lastCall.op = "read_inputs" /\ lastCall.kind = "raised"
      /\ exc = "KeyError")

\* a | b on non-negative integers
RECURSIVE BitOr(_, _)
BitOr(a, b) ==
    IF a = 0 THEN b
    ELSE IF b = 0 THEN a
    ELSE (IF a % 2 = 1 \/ b % 2 = 1 THEN 1 ELSE 0)
         + 2 * BitOr(a \div 2, b \div 2)

\* C13: the integer _rsdf combines from registers[index], registers[index+1]
\* and divides by its scale is (registers[index] << 16) | registers[index+1],
\* high word first, within 0..2^32-1; read_inputs scales that integer of the
\* offsets 1, 5, 9, 11, 26, 28 and 30.
C13_DoubleRegister ==
    /\ codec.op = "_rsdf" =>
          LET hi == codec.registers[codec.index]
              lo == codec.registers[codec.index + 1]
              sc == RsdfScale(codec.index)
              raw == codec.out.n \div sc.d
          IN  /\ codec.out = Rat(BitOr(ShiftLeft(hi, 16), lo) * sc.d, sc.n)
              /\ ShiftRight(raw, 16) = hi
              /\ BitAnd(raw, 65535) = lo
              /\ raw >= 0
              /\ ShiftRight(raw, 16) <= 65535
    /\ (codec.op = "read_inputs" /\ lastCall.kind = "ok") =>
          LET r == codec.registers
              Scaled(o, sc) ==
                  RatDiv(Float(BitOr(ShiftLeft(r[o], 16), r[o + 1])), sc)
          IN  /\ inv.pv_power_total = Scaled(1, Scale10)
              /\ inv.pv_power1 = Scaled(5, Scale10)
              /\ inv.pv_power2 = Scaled(9, Scale10)
              /\ inv.ac_power = Scaled(11, Scale10)
              /\ inv.wh_today = Scaled(26, ScaleWh)
              /\ inv.wh_total = Scaled(28, ScaleWh)
              /\ inv.operation_hours = Scaled(30, ScaleHours)

\* the largest high word with the largest low word, combined and divided by
\* the default scale 10
C13_Witness ==
    /\ codec.op = "_rsdf"
    /\ codec.registers[codec.index] = 32767
    /\ codec.registers[codec.index + 1] = 65535
    /\ codec.out = Rat(2147483647, 10)

\* the decimal rendering of a nibble
Dec16 ==
    << <<"0">>, <<"1">>, <<"2">>, <<"3">>, <<"4">>, <<"5">>, <<"6">>, <<"7">>,
       <<"8">>, <<"9">>, <<"1", "0">>, <<"1", "1">>, <<"1", "2">>,
       <<"1", "3">>, <<"1", "4">>, <<"1", "5">> >>

\* the nibble of mo at bits 4k+3..4k
Nibble(mo, k) == (mo \div (16 ^ k)) % 16

\* "T{n0} Q{n1} P{n2} U{n3} M{n4} S{n5}" for the nibbles at bits 23..0 of mo
ModelString(mo) ==
    <<"T">> \o Dec16[Nibble(mo, 5) + 1] \o <<" ", "Q">> \o Dec16[Nibble(mo, 4) + 1]
    \o <<" ", "P">> \o Dec16[Nibble(mo, 3) + 1]
    \o <<" ", "U">> \o Dec16[Nibble(mo, 2) + 1]
    \o <<" ", "M">> \o Dec16[Nibble(mo, 1) + 1]
    \o <<" ", "S">> \o Dec16[Nibble(mo, 0) + 1]

\* C14: after version() succeeded, model_no is the string of the six nibbles
\* at bits 23..0 of registers 28 and 29 combined high word first; bits 31-24
\* have no effect; 0x123456 gives "T1 Q2 P3 U4 M5 S6".
C14_ModelNumber ==
    (codec.op = "version" /\ lastCall.kind = "ok") =>
        LET hi == codec.registers[28]
            lo == codec.registers[29]
        IN  /\ inv.model_no = ModelString(hi * 65536 + lo)
            /\ inv.model_no = ModelString((hi % 256) * 65536 + lo)
            /\ (hi = 18 /\ lo = 13398) =>
                  inv.model_no = <<"T", "1", " ", "Q", "2", " ", "P", "3", " ",
                                   "U", "4", " ", "M", "5", " ", "S", "6">>

\* version() on registers 28, 29 = 0x1234, 0xABCD: bits 31-24 are set and
\* the low nibbles take two digits
C14_Witness ==
    /\ codec.op = "version"
    /\ lastCall.kind = "ok"
    /\ codec.registers[28] = 4660
    /\ codec.registers[29] = 43981
    /\ inv.model_no = <<"T", "3", " ", "Q", "4", " ", "P", "1", "0", " ",
                        "U", "1", "1", " ", "M", "1", "2", " ", "S", "1", "3">>

\* C15: _decode_registers(registers, start, count) yields 2 * count
\* characters, those of register start+k at places 2k+1 and 2k+2, high byte
\* first; (ord(c1) << 8) | ord(c2) gives the register back, and equal
\* registers give equal character pairs.
C15_StringRoundTrip ==
    codec.op = "_decode_registers" =>
        LET r == codec.registers
            out == codec.out
        IN  /\ Len(out) = 2 * codec.count
            /\ \A k \in 0..(codec.count - 1) :
                  /\ Ord(out[2 * k + 1]) = r[codec.start + k] \div 256
                  /\ Ord(out[2 * k + 2]) = r[codec.start + k] % 256
                  /\ BitOr(ShiftLeft(Ord(out[2 * k + 1]), 8),
                           Ord(out[2 * k + 2])) = r[codec.start + k]
            /\ \A j, k \in 0..(codec.count - 1) :
                  r[codec.start + j] = r[codec.start + k]
                      => /\ out[2 * j + 1] = out[2 * k + 1]
                         /\ out[2 * j + 2] = out[2 * k + 2]

\* the registers 0x1234, 0xABCD decoded to the four characters 0x12, 0x34,
\* 0xAB, 0xCD
C15_Witness ==
    /\ codec.op = "_decode_registers"
    /\ codec.start = codec.index
    /\ codec.count = 2
    /\ codec.registers[codec.start] = 4660
    /\ codec.registers[codec.start + 1] = 43981
    /\ codec.out = <<Chr(18), Chr(52), Chr(171), Chr(205)>>

\* C16: in test mode no POST is ever made, there is no message-bus session
\* and nothing is published; what would be sent is only logged.
C16_TestModeSendsNothing ==
    testMode =>
        /\ call.posts = 0
        /\ pc \notin {"post", "sleep_403", "retry_sleep"}
        /\ mqtt = MqttNone
        /\ it.mqtt \in {"none", "logged"}
        /\ it.upload \in {"none", "skipped", "invoked", "logged"}

\* a test-mode iteration in an upload slot: payload and state values logged
C16_Witness ==
    /\ testMode
    /\ pc = "poll_sleep"
    /\ it.upload = "logged"
    /\ it.mqtt = "logged"

\* C17: once a KeyboardInterrupt has left the poll loop and the finally
\* clause has run, the message-bus session, if there is one, is shut down
\* (offline availability published, disconnected, network loop stopped),
\* and the process exits with status 0.
C17_GracefulShutdown ==
    (exc = "KeyboardInterrupt" /\ pc \in {"main_except", "exited"}) =>
        /\ ~testMode => /\ mqtt.client = "disconnected"
                        /\ mqtt.offline
                        /\ ~mqtt.loop
        /\ testMode => mqtt = MqttNone
        /\ pc = "exited" => (exit_code.some /\ exit_code.v = 0)

\* an interrupt that arrived during an upload, after a POST had been made
C17_Witness ==
    /\ pc = "exited"
    /\ exc = "KeyboardInterrupt"
    /\ mqtt.client = "disconnected"
    /\ call.posts = 1
    /\ ~call.returned
    /\ exit_code.some

\* C18: an Active iteration that is over has slept exactly once in the loop
\* itself, for the poll interval, whether or not it had a reading; before its
\* end it has not slept in the loop.
C18_PollSleepOnce ==
    /\ (pc = "loop" /\ it.read # "none")
          => /\ it.sleeps = 1
             /\ it.slept = POLL_INTERVAL
    /\ (pc \in LoopPcs \ {"loop"}) => it.sleeps = 0

\* started at 05:04:50: the second read attempt, made one poll interval
\* after a first one that failed (no reading has been stamped yet)
C18_Witness ==
    /\ pc = "check_status"
    /\ lastCall.op = "read_inputs"
    /\ iter = 2
    /\ clock \in 18300..(18300 + MaxDrift)
    /\ it.read = "read_error"
    /\ inv.date = EpochDate

\* C19: an iteration with a reading hands it to the publisher exactly once,
\* after the upload of the iteration if there is one, whatever the upload
\* did; an iteration whose status is -1 does not publish; an exception of the
\* publish call does not leave the loop, which then sleeps the poll interval.
C19_PublishOnce ==
    /\ (pc \in {"poll_sleep", "loop"} /\ it.read = "ok")
          => /\ it.publishes = 1
             /\ it.upload \in {"skipped", "ok", "gave_up", "logged"}
    /\ pc \in {"read_inputs", "read_registers", "check_status", "slot",
               "send_status", "post",
               "sleep_403", "retry_sleep", "send_return", "after_send",
               "publish"} => it.publishes = 0
    /\ inv.status = NoStatus => it.publishes = 0
    /\ it.mqtt = "failed"
          => /\ exc \in {"none", "KeyboardInterrupt"}
             /\ pc = "loop" => it.sleeps = 1

\* an iteration whose upload gave up and whose publish call raised, over
C19_Witness ==
    /\ pc = "loop"
    /\ it.read = "ok"
    /\ it.upload = "gave_up"
    /\ it.publishes = 1
    /\ it.mqtt = "failed"
    /\ it.sleeps = 1

\* C20: after send_status gave up, the minute of the slot is recorded in
\* last_pvo_minute; a POST made after a give-up carries a later reading and
\* is made in a poll whose minute is a multiple of 5 and is not the recorded
\* minute.
C20_NoBacklog ==
    /\ (it.upload = "gave_up" /\ pc \in {"publish", "poll_sleep", "loop"})
          => last_pvo_minute = MinuteOf(now)
    /\ (pc = "post" /\ sent.gaveUpDate # EpochDate)
          => /\ args.date > sent.gaveUpDate
             /\ MinuteOf(now) % 5 = 0
             /\ last_pvo_minute # NoMinute
             /\ MinuteOf(now) # last_pvo_minute

\* C21: an inactive iteration always makes progress: every shift sleep is
\* longer than zero seconds, the 1-minute fallback branch (the hour read is
\* inside the window although the window test was not) sleeps exactly 60
\* seconds, the loop is back at its window test after the sleep, and an
\* inactive iteration is eventually followed by an active one.
C21_ShiftProgress ==
    /\ []((pc = "loop" /\ it.sleeps = 1) =>
            /\ it.slept > 0
            /\ InWindow(hour) => it.slept = 60)
    /\ (pc = "shift_sleep") ~> (pc = "loop" /\ it.sleeps = 1)
    /\ (pc = "shift_hour") ~> (pc = "read_inputs")

\* the active iteration that follows the fallback sleep: the window test at
\* 04:59:59 failed, the hour was read as 5 a second later, the loop slept
\* 60 seconds and is now about to read the inverter
C21_Witness ==
    /\ pc = "read_inputs"
    /\ iter = 2
    /\ hour = shStart
    /\ minute = 0
    /\ clock \in (shStart * 3600 + 60)..(shStart * 3600 + 60 + MaxDrift)

\* C22: a read_inputs that fails (the port cannot be opened, the reply is a
\* protocol error or has fewer than 45 registers) leaves the timestamp and
\* every measurement of the last successful poll as they were; only the
\* status may change, and only to the sentinel -1.
C22_FailedReadKeepsReading ==
    [][(/\ pc \in {"read_inputs", "read_registers"}
        /\ pc' = "check_status"
        /\ it'.read \in {"connect_failed", "read_error"})
       => /\ [inv' EXCEPT !.status = inv.status] = inv
          /\ inv'.status \in {inv.status, NoStatus}]_vars

\* a poll got a reading stamped with its time, and a later poll has just
\* failed with a read error: the reading's fields are still there
C22_Witness ==
    /\ pc = "check_status"
    /\ it.read = "read_error"
    /\ iter >= 2
    /\ inv.date # EpochDate
    /\ inv.status = NoStatus
    /\ RatPos(inv.wh_today)
    /\ RatPos(inv.pv_power_total)

\* the identity fields of the inverter object
Identity(i) == <<i.firmware, i.control_fw, i.serial_no, i.model_no, i.dtc>>

\* C23: a version call that gets a protocol error or fewer than 45 holding
\* registers leaves firmware, control_fw, serial_no, model_no and dtc with
\* the values they had before the call.
C23_FailedVersionKeepsIdentity ==
    [][(/\ iter' = iter + 1
        /\ lastCall'.op = "version"
        /\ lastCall'.kind = "read_error")
       => Identity(inv') = Identity(inv)]_vars

\* C24: the payload send_status builds has the efficiency field v12 exactly
\* when power_gen is given, power_vdc is given and power_vdc > 0; building
\* it never divides by zero, whether the two arguments are given, absent,
\* zero or negative.
C24_EfficiencyGuard ==
    (/\ pc \in {"post", "sleep_403", "retry_sleep", "send_return"}
     /\ call.entry = "send_status") =>
        /\ ("v12" \in DOMAIN payload)
              <=> (/\ args.power_gen.some
                   /\ args.power_vdc.some
                   /\ RatPos(args.power_vdc.v))
        /\ "v12" \in DOMAIN payload => payload["v12"].d # 0

\* send_status was given 400.0 W generated out of 500.0 W of PV power and
\* is about to post an efficiency of 80 per cent
C24_Witness ==
    /\ pc = "post"
    /\ args.power_gen = Some(Rat(4000, 10))
    /\ args.power_vdc = Some(Rat(5000, 10))
    /\ "v12" \in DOMAIN payload
    /\ RatEq(payload["v12"], Float(80))

\* C25: the guard skips no upload slot: when a poll has a reading at a
\* minute that is a multiple of 5 and skips the upload, an upload has been
\* invoked in that same calendar minute (hour and day included).
C25_NoSlotSkipped ==
    (pc = "publish" /\ it.upload = "skipped" /\ MinuteOf(now) % 5 = 0)
        => CalendarMinute(now) \in sent.minutes

\* the start of the window the loop waits for when its shift sleep begins
\* at second s: the next shStart:00:00, or the one just passed if the clock
\* ran into the window between the window test and the sleep
WindowStartFor(s) ==
    LET tod == s % 86400
    IN  IF tod >= shStop * 3600 THEN (s - tod) + 86400 + shStart * 3600
        ELSE (s - tod) + shStart * 3600

\* C26: the shift sleep never overshoots: whatever time passes between the
\* window test and the reads of hour and minute, the sleep ends at most one
\* minute after the start of the next window.
C26_NoOvershoot ==
    (pc = "loop" /\ it.sleeps = 1 /\ it.read = "none")
        => clock <= WindowStartFor(clock - it.slept) + 60

\* C27: __call sleeps only between two attempts: before the POST that
\* follows a 403 it has slept exactly round(reset - now) + 1 seconds, before
\* the POST that follows any other failure exactly 5 seconds, and when it
\* gives up after the third failure it has not slept since that failure.
C27_SleepsBetweenAttempts ==
    /\ (pc = "post" /\ call.posts >= 1) =>
          call.slept = (IF call.pending403 THEN call.need ELSE RetrySleep)
    /\ (pc = "send_return" /\ call.giveups = 1) => call.slept = 0

\* C28: the number of seconds passed to sleep after a 403,
\* round(reset_timestamp - now) + 1, is never negative, also when the
\* reset timestamp lies in the past.
C28_RateLimitSleepNonNegative ==
    pc = "sleep_403" => RateLimitSleep(reset) >= 0

\* C29: every register index that read_inputs and version read from a reply
\* is in 0..44, and no register is read from a reply that failed the test
\* for 45 registers (or when the port could not be opened).
C29_RegisterAccessInRange ==
    /\ lastCall.accessed \subseteq 0..(MinRegisters - 1)
    /\ lastCall.kind \in {"connect_failed", "read_error"}
          => lastCall.accessed = {}
    /\ (lastCall.op = "version" /\ lastCall.kind = "ok")
          => lastCall.accessed = (9..14) \cup (23..29) \cup {43}
    /\ (lastCall.op = "read_inputs" /\ lastCall.kind = "ok")
          => /\ \A o \in InputDoubles : {o, o + 1} \subseteq lastCall.accessed
             /\ {0, 32, 41} \subseteq lastCall.accessed

\* read_inputs has just decoded a full block, the second words of the
\* doubles at 26, 28 and 30 included, on an object whose identity version
\* decoded before
C29_Witness ==
    /\ lastCall.op = "read_inputs"
    /\ lastCall.kind = "ok"
    /\ {27, 29, 31, 41} \subseteq lastCall.accessed
    /\ inv.firmware # <<>>
    /\ inv.dtc = 134
    /\ RatPos(inv.wh_today)


====
